---- MODULE Spec2Model ----
(***************************************************************************)
(* Model of the speech recorder: SpeechRecorder (speech_recorder.py) on    *)
(* top of AudioRecorder (audio_recorder.py), the capture thread and its    *)
(* audio callback, the transcription workers with SpeechToTextProcessor   *)
(* (speech_to_text.py) and the rows they store, TranscriptionDatabase     *)
(* (database.py), and GlobalKeyboardHandler (keyboard_handler.py).  Each   *)
(* read or write of a shared attribute is one step of the thread that      *)
(* performs it; the code takes no lock.                                    *)
(***************************************************************************)
EXTENDS Integers, Sequences, FiniteSets, TLC

\* ---------------------------------------------------------------- bounds
MaxCalls == 2          \* calls begun by the two callers in Spec
MaxSeqCalls == 3       \* calls begun by the single caller in SpecSeq
MaxToggleCalls == 4    \* toggle calls begun by the two callers in SpecToggle
MaxFrames == 2         \* blocks kept in one frame list
MaxClock == 2          \* readings of datetime.now() that differ
MaxDeviceChanges == 1  \* times the input device appears or disappears
MaxToggles == 3        \* toggle workers the key handler dispatches
MaxJobCalls == 2       \* calls begun by the single caller in SpecJobs
MaxModelChanges == 1   \* change_model calls begun
MaxLiveCalls == 3      \* toggle calls begun by the two callers in SpecLive
MaxLaterCalls == 4     \* toggle calls begun by the single caller in SpecLater
MaxServiceCalls == 2   \* start_service calls begun in SpecService
MaxSaves == 2          \* save_transcription calls made in SpecDb
MaxWorkers == 2        \* dispatched toggle workers that begin to run in SpecHotkey
MaxFillCalls == 2      \* toggle calls begun by the single caller in SpecFill

\* None, for recording_thread, recording_start_time and file paths
None == 0
\* NULL in the columns duration and confidence (None passed to save_transcription)
Null == -1

\* The threads that call the coordinator: a hotkey worker and the UI thread.
Callers == {"hotkey", "ui"}
\* Capture threads (one is created by each successful AudioRecorder.start_recording).
Largest(S) == CHOOSE x \in S : \A y \in S : y <= x
CapIds == 1..Largest({MaxCalls, MaxSeqCalls, MaxToggleCalls, MaxJobCalls, MaxLiveCalls, MaxLaterCalls,
                     MaxServiceCalls, MaxWorkers, MaxFillCalls})
\* Keys: the default combination Cmd+R and two keys outside it.
Keys == {"cmd", "r", "x", "y"}
\* Model names change_model accepts (get_available_models) and one it refuses.
Models == {"base", "tiny"}
ModelNames == Models \cup {"huge"}
\* Texts the engine returns, and str.strip() of each.
RawTexts == {"", " ", " hi "}
Strip(x) == IF x \in {" hi ", "hi"} THEN "hi" ELSE ""
\* Contents of a block of samples.
Samples == {0, 1}
\* Confidence computed from the segments of a result (in tenths); the error
\* results carry 0.0.
Confs == {9}
\* What self.model.transcribe does: it raises, or returns text and segments.
EngineResults ==
    {[ok |-> FALSE, text |-> "", conf |-> 0]}
        \cup {[ok |-> TRUE, text |-> x, conf |-> c] : x \in RawTexts, c \in Confs}

VARIABLES
    \* SpeechRecorder
    sr_is_recording, current_audio_file,
    \* AudioRecorder
    ar_is_recording, audio_data, recording_thread, recording_start_time,
    \* capture threads (_record_audio) and their stream's callback; the samples
    \* in the buffer each stream hands its callback, and what each element of
    \* audio_data holds
    cap, cb, indata, blocks, delivered,
    \* caller threads: position, operation, locals and last result
    pc, op, ret, path, jt, sess, idle_at_call,
    \* environment: clock, input device, files on disk, speech model
    clock, mic_available, devChanges, files,
    \* SpeechToTextProcessor: model, model_name and the thread of change_model
    model, model_name, cm, cm_ret, cm_before, model_changes,
    \* transcription workers and subscriber callbacks
    jobs, saved, events, budget,
    \* TranscriptionDatabase: the rows of the table, its AUTOINCREMENT counter
    \* and the last call made with its result
    db, db_seq, db_call, issued,
    \* GlobalKeyboardHandler
    listener, is_listening, toggle_key_combination, currently_pressed, recording_active,
    toggles, listen_ret, held

srVars == <<sr_is_recording, current_audio_file>>
arVars == <<ar_is_recording, audio_data, recording_thread, recording_start_time>>
bufVars == <<indata, blocks, delivered>>
capVars == <<cap, cb, bufVars>>
callerVars == <<pc, op, ret, path, jt, sess, idle_at_call>>
cmVars == <<model_name, cm, cm_ret, cm_before, model_changes>>
envVars == <<clock, mic_available, devChanges, files, model, cmVars>>
dbVars == <<db_seq, db_call, issued>>
jobVars == <<jobs, saved, events, db, dbVars>>
keyVars == <<listener, is_listening, toggle_key_combination, currently_pressed,
             recording_active, toggles, listen_ret, held>>
vars == <<srVars, arVars, capVars, callerVars, envVars, jobVars, budget, keyVars>>

\* ------------------------------------------------------------ construction
\* SpeechRecorder.__init__, AudioRecorder.__init__, GlobalKeyboardHandler.__init__
InitRecorder ==
    /\ sr_is_recording = FALSE
    /\ current_audio_file = None
    /\ ar_is_recording = FALSE
    /\ audio_data = <<>>
    /\ recording_thread = None
    /\ recording_start_time = None
    /\ cap = [c \in CapIds |-> "none"]
    /\ cb = [c \in CapIds |-> "idle"]
    /\ indata = [c \in CapIds |-> 0]
    /\ delivered = [c \in CapIds |-> 0]
    /\ blocks = <<>>
    /\ op = [t \in Callers |-> "-"]
    /\ ret = [t \in Callers |-> "-"]
    /\ path = [t \in Callers |-> None]
    /\ jt = [t \in Callers |-> None]
    /\ sess = [t \in Callers |-> None]
    /\ idle_at_call = [t \in Callers |-> FALSE]
    /\ clock = 1
    /\ devChanges = 0
    /\ files = [p \in 1..MaxClock |-> <<>>]
    /\ jobs = <<>>
    /\ saved = {}
    /\ events = <<>>
    /\ db = <<>>
    /\ db_seq = 0
    /\ db_call = [op |-> "-", id |-> 0, ret |-> FALSE]
    /\ issued = {}
    /\ model_name = "base"
    /\ cm = "idle"
    /\ cm_ret = "-"
    /\ cm_before = [model |-> None, model_name |-> "base"]
    /\ model_changes = 0

InitKeys ==
    /\ listener = "none"
    /\ is_listening = FALSE
    /\ toggle_key_combination = {"cmd", "r"}
    /\ currently_pressed = {}
    /\ recording_active = FALSE
    /\ toggles = 0
    /\ listen_ret = "-"
    /\ held = {}

\* ------------------------------------------------------------------ helpers
Goto(t, l) == pc' = [pc EXCEPT ![t] = l]

\* return from the outermost call of thread t with result r
Return(t, r) ==
    /\ pc' = [pc EXCEPT ![t] = "idle"]
    /\ ret' = [ret EXCEPT ![t] = r]
    /\ path' = [path EXCEPT ![t] = None]
    /\ jt' = [jt EXCEPT ![t] = None]
    /\ sess' = [sess EXCEPT ![t] = None]

\* the values a call of datetime.now() can return: time does not go back
NowValues == {clock} \cup (IF clock < MaxClock THEN {clock + 1} ELSE {})

\* threading.Thread.is_alive() of capture thread c: it has not returned
\* ("dead") nor ended in its except clause ("failed")
IsAlive(c) == c # None /\ cap[c] \in {"opening", "running"}

\* the capture thread object a new threading.Thread(...) call creates
NewCap == CHOOSE c \in CapIds : cap[c] = "none" /\ \A d \in CapIds : d < c => cap[d] # "none"

\* ------------------------------------------------- callers of the coordinator
\* A thread enters start_recording, stop_recording, toggle_recording or
\* start_service of SpeechRecorder (the UI's toggle_manual_recording has
\* toggle's shape).
Call(t, o) ==
    /\ pc[t] = "idle"
    /\ budget > 0
    /\ budget' = budget - 1
    /\ op' = [op EXCEPT ![t] = o]
    /\ pc' = [pc EXCEPT ![t] = CASE o = "start" -> "sr_start_chk"
                                 [] o = "stop" -> "sr_stop_chk"
                                 [] o = "ar_toggle" -> "ar_toggle"
                                 [] o = "start_service" -> "svc_model"
                                 [] OTHER -> "sr_toggle"]
    /\ ret' = [ret EXCEPT ![t] = "-"]
    /\ path' = [path EXCEPT ![t] = None]
    /\ jt' = [jt EXCEPT ![t] = None]
    /\ sess' = [sess EXCEPT ![t] = None]
    /\ idle_at_call' = [idle_at_call EXCEPT ![t] =
                           IF o = "ar_toggle" THEN ~ar_is_recording ELSE ~sr_is_recording]
    /\ UNCHANGED <<srVars, arVars, capVars, envVars, jobVars, keyVars>>

\* SpeechRecorder.toggle_recording: if self.is_recording: stop else: start
SR_Toggle_AlwaysStarts(t) ==
    /\ pc[t] = "sr_toggle"
    /\ Goto(t, "sr_start_chk")
    /\ UNCHANGED <<op, idle_at_call, ret, path, jt, sess>>
    /\ UNCHANGED <<srVars, arVars, capVars, envVars, jobVars, budget, keyVars>>

SR_Toggle(t) ==
    /\ pc[t] = "sr_toggle"
    /\ Goto(t, IF sr_is_recording THEN "sr_stop_chk" ELSE "sr_start_chk")
    /\ UNCHANGED <<op, idle_at_call, ret, path, jt, sess>>
    /\ UNCHANGED <<srVars, arVars, capVars, envVars, jobVars, budget, keyVars>>

\* AudioRecorder.toggle_recording: if self.is_recording: self.stop_recording();
\* return False   else: return self.start_recording()
AR_Toggle(t) ==
    /\ pc[t] = "ar_toggle"
    /\ Goto(t, IF ar_is_recording THEN "ar_stop_chk" ELSE "ar_start_chk")
    /\ UNCHANGED <<op, idle_at_call, ret, path, jt, sess>>
    /\ UNCHANGED <<srVars, arVars, capVars, envVars, jobVars, budget, keyVars>>

\* SpeechRecorder.start_recording: the guard `if self.is_recording: return False`
SR_StartBusy_Unguarded == FALSE

SR_StartBusy_WaitsForJobs ==
    sr_is_recording \/ \E j \in 1..Len(jobs) : jobs[j].status \in {"queued", "running"}

SR_StartBusy == sr_is_recording

SR_StartCheck(t) ==
    /\ pc[t] = "sr_start_chk"
    /\ IF SR_StartBusy
         THEN Return(t, "False")
         ELSE Goto(t, "ar_start_chk") /\ UNCHANGED <<ret, path, jt, sess>>
    /\ UNCHANGED <<op, idle_at_call, idle_at_call>>
    /\ UNCHANGED <<srVars, arVars, capVars, envVars, jobVars, budget, keyVars>>

\* AudioRecorder.start_recording: the guard `if self.is_recording: return False`;
\* SpeechRecorder.start_recording then returns success = False
AR_StartBusy == ar_is_recording

AR_StartCheck(t) ==
    /\ pc[t] = "ar_start_chk"
    /\ IF AR_StartBusy
         THEN Return(t, "False")
         ELSE Goto(t, "ar_start_set") /\ UNCHANGED <<ret, path, jt, sess>>
    /\ UNCHANGED <<op, idle_at_call, idle_at_call>>
    /\ UNCHANGED <<srVars, arVars, capVars, envVars, jobVars, budget, keyVars>>

\* self.is_recording = True
AR_StartSet(t) ==
    /\ pc[t] = "ar_start_set"
    /\ ar_is_recording' = TRUE
    /\ Goto(t, "ar_start_data")
    /\ UNCHANGED <<audio_data, recording_thread, recording_start_time>>
    /\ UNCHANGED <<op, idle_at_call, ret, path, jt, sess>>
    /\ UNCHANGED <<srVars, capVars, envVars, jobVars, budget, keyVars>>

\* self.audio_data = []
AR_StartData(t) ==
    /\ pc[t] = "ar_start_data"
    /\ audio_data' = <<>>
    /\ blocks' = <<>>
    /\ Goto(t, "ar_start_time")
    /\ UNCHANGED <<ar_is_recording, recording_thread, recording_start_time>>
    /\ UNCHANGED <<op, idle_at_call, ret, path, jt, sess>>
    /\ UNCHANGED <<cap, cb, indata, delivered>>
    /\ UNCHANGED <<srVars, envVars, jobVars, budget, keyVars>>

\* self.recording_start_time = datetime.now()
AR_StartTime(t) ==
    /\ pc[t] = "ar_start_time"
    /\ \E n \in NowValues :
          /\ clock' = n
          /\ recording_start_time' = n
    /\ Goto(t, "ar_start_thread")
    /\ UNCHANGED <<ar_is_recording, audio_data, recording_thread>>
    /\ UNCHANGED <<op, idle_at_call, ret, path, jt, sess>>
    /\ UNCHANGED <<mic_available, devChanges, files, model, cmVars>>
    /\ UNCHANGED <<srVars, capVars, jobVars, budget, keyVars>>

\* self.recording_thread = threading.Thread(target=self._record_audio); .start()
\* (sess: the session this call begins)
AR_StartThread(t) ==
    /\ pc[t] = "ar_start_thread"
    /\ recording_thread' = NewCap
    /\ cap' = [cap EXCEPT ![NewCap] = "opening"]
    /\ sess' = [sess EXCEPT ![t] = NewCap]
    /\ Goto(t, "ar_start_cb")
    /\ UNCHANGED <<ar_is_recording, audio_data, recording_start_time, cb, bufVars>>
    /\ UNCHANGED <<op, idle_at_call, ret, path, jt>>
    /\ UNCHANGED <<srVars, envVars, jobVars, budget, keyVars>>

\* self.on_recording_start() -> SpeechRecorder._on_recording_start -> subscriber;
\* return True, to SpeechRecorder.start_recording or out of
\* AudioRecorder.toggle_recording
AR_StartCallback(t) ==
    /\ pc[t] = "ar_start_cb"
    /\ events' = Append(events, [kind |-> "start", session |-> sess[t], job |-> None])
    /\ IF op[t] = "ar_toggle"
         THEN Return(t, "True")
         ELSE Goto(t, "sr_start_set") /\ UNCHANGED <<ret, path, jt, sess>>
    /\ UNCHANGED <<op, idle_at_call, jobs, saved, db, dbVars>>
    /\ UNCHANGED <<srVars, arVars, capVars, envVars, budget, keyVars>>

\* back in SpeechRecorder.start_recording: if success: self.is_recording = True
SR_StartSet(t) ==
    /\ pc[t] = "sr_start_set"
    /\ sr_is_recording' = TRUE
    /\ Return(t, "True")
    /\ UNCHANGED <<current_audio_file, op, idle_at_call>>
    /\ UNCHANGED <<arVars, capVars, envVars, jobVars, budget, keyVars>>

\* SpeechRecorder.stop_recording: the guard `if not self.is_recording: return None`
SR_StopIdle_Unguarded == FALSE

SR_StopIdle == ~sr_is_recording

SR_StopCheck(t) ==
    /\ pc[t] = "sr_stop_chk"
    /\ IF SR_StopIdle
         THEN Return(t, "None")
         ELSE Goto(t, "ar_stop_chk") /\ UNCHANGED <<ret, path, jt, sess>>
    /\ UNCHANGED <<op, idle_at_call, idle_at_call>>
    /\ UNCHANGED <<srVars, arVars, capVars, envVars, jobVars, budget, keyVars>>

\* AudioRecorder.stop_recording: the guard `if not self.is_recording: return None`
AR_StopIdle == ~ar_is_recording

AR_StopCheck(t) ==
    /\ pc[t] = "ar_stop_chk"
    /\ IF AR_StopIdle
         THEN IF op[t] = "ar_toggle"
                THEN Return(t, "False")
                ELSE /\ Goto(t, "sr_stop_file")
                     /\ path' = [path EXCEPT ![t] = None]
                     /\ UNCHANGED <<ret, jt, sess>>
         ELSE Goto(t, "ar_stop_clear") /\ UNCHANGED <<path, ret, jt, sess>>
    /\ UNCHANGED <<op, idle_at_call>>
    /\ UNCHANGED <<srVars, arVars, capVars, envVars, jobVars, budget, keyVars>>

\* self.is_recording = False   (sess: the session this call is ending)
AR_StopClear(t) ==
    /\ pc[t] = "ar_stop_clear"
    /\ ar_is_recording' = FALSE
    /\ sess' = [sess EXCEPT ![t] = recording_thread]
    /\ Goto(t, "ar_stop_join")
    /\ UNCHANGED <<audio_data, recording_thread, recording_start_time>>
    /\ UNCHANGED <<op, idle_at_call, ret, path, jt>>
    /\ UNCHANGED <<srVars, capVars, envVars, jobVars, budget, keyVars>>

\* if self.recording_thread and self.recording_thread.is_alive(): ... .join()
AR_StopJoin(t) ==
    /\ pc[t] = "ar_stop_join"
    /\ IF IsAlive(recording_thread)
         THEN jt' = [jt EXCEPT ![t] = recording_thread] /\ Goto(t, "ar_stop_wait")
         ELSE UNCHANGED jt /\ Goto(t, "ar_stop_cb")
    /\ UNCHANGED <<op, idle_at_call, ret, path, sess>>
    /\ UNCHANGED <<srVars, arVars, capVars, envVars, jobVars, budget, keyVars>>

\* join() returns once the joined capture thread has exited
AR_StopWait(t) ==
    /\ pc[t] = "ar_stop_wait"
    /\ ~IsAlive(jt[t])
    /\ Goto(t, "ar_stop_cb")
    /\ UNCHANGED <<op, idle_at_call, ret, path, jt, sess>>
    /\ UNCHANGED <<srVars, arVars, capVars, envVars, jobVars, budget, keyVars>>

\* self.on_recording_stop() -> SpeechRecorder._on_recording_stop -> subscriber
AR_StopCallback(t) ==
    /\ pc[t] = "ar_stop_cb"
    /\ events' = Append(events, [kind |-> "stop", session |-> sess[t], job |-> None])
    /\ Goto(t, "ar_stop_save")
    /\ UNCHANGED <<op, idle_at_call, ret, path, jt, sess, jobs, saved, db, dbVars>>
    /\ UNCHANGED <<srVars, arVars, capVars, envVars, budget, keyVars>>

\* if len(self.audio_data) > 0: file_path = self._save_audio(concatenate(...))
\* _save_audio names the file by datetime.now() to the second and writes it;
\* the path (or None) is returned to SpeechRecorder.stop_recording, or dropped
\* by AudioRecorder.toggle_recording, which returns False
AR_StopSave(t) ==
    /\ pc[t] = "ar_stop_save"
    /\ \E p \in (IF Len(audio_data) > 0 THEN NowValues ELSE {None}) :
          /\ IF p # None
               THEN /\ clock' = p
                    /\ files' = [files EXCEPT ![p] = audio_data]
                    /\ saved' = saved \cup {sess[t]}
               ELSE UNCHANGED <<clock, files, saved>>
          /\ IF op[t] = "ar_toggle"
               THEN Return(t, "False")
               ELSE /\ Goto(t, "sr_stop_file")
                    /\ path' = [path EXCEPT ![t] = p]
                    /\ UNCHANGED <<ret, jt, sess>>
    /\ delivered' = [c \in CapIds |-> IF c = sess[t] THEN 0 ELSE delivered[c]]
    /\ UNCHANGED <<op, idle_at_call, jobs, events, db, dbVars>>
    /\ UNCHANGED <<mic_available, devChanges, model, cmVars>>
    /\ UNCHANGED <<srVars, arVars, cap, cb, indata, blocks, budget, keyVars>>

\* self.current_audio_file = self.audio_recorder.stop_recording()
SR_StopFile(t) ==
    /\ pc[t] = "sr_stop_file"
    /\ current_audio_file' = path[t]
    /\ Goto(t, "sr_stop_flag")
    /\ UNCHANGED <<sr_is_recording, op, idle_at_call, ret, path, jt, sess>>
    /\ UNCHANGED <<arVars, capVars, envVars, jobVars, budget, keyVars>>

\* self.is_recording = False
SR_StopFlag(t) ==
    /\ pc[t] = "sr_stop_flag"
    /\ sr_is_recording' = FALSE
    /\ Goto(t, "sr_stop_if")
    /\ UNCHANGED <<current_audio_file, op, idle_at_call, ret, path, jt, sess>>
    /\ UNCHANGED <<arVars, capVars, envVars, jobVars, budget, keyVars>>

\* if self.current_audio_file:
SR_StopIf(t) ==
    /\ pc[t] = "sr_stop_if"
    /\ Goto(t, IF current_audio_file # None THEN "sr_stop_spawn" ELSE "sr_stop_ret")
    /\ UNCHANGED <<op, idle_at_call, ret, path, jt, sess>>
    /\ UNCHANGED <<srVars, arVars, capVars, envVars, jobVars, budget, keyVars>>

\* the worker a stop_recording() starts for file p (session: the session that
\* call ended; start: the start time the recorder holds as the call ends, which
\* with one caller is that session's); seen and used are the models it finds,
\* text and conf its result
NewJob(p, s) ==
    [path |-> p, session |-> s, start |-> recording_start_time,
     status |-> "queued", result |-> "-",
     seen |-> None, used |-> None, text |-> "", conf |-> 0]

\* threading.Thread(target=self._process_transcription,
\*                  args=(self.current_audio_file,), daemon=True).start()
SR_StopSpawn(t) ==
    /\ pc[t] = "sr_stop_spawn"
    /\ jobs' = Append(jobs, NewJob(current_audio_file, sess[t]))
    /\ Goto(t, "sr_stop_ret")
    /\ UNCHANGED <<op, idle_at_call, ret, path, jt, sess, saved, events, db, dbVars>>
    /\ UNCHANGED <<srVars, arVars, capVars, envVars, budget, keyVars>>

\* return self.current_audio_file
SR_StopReturn(t) ==
    /\ pc[t] = "sr_stop_ret"
    /\ Return(t, IF current_audio_file # None THEN "path" ELSE "None")
    /\ UNCHANGED <<op, idle_at_call, idle_at_call>>
    /\ UNCHANGED <<srVars, arVars, capVars, envVars, jobVars, budget, keyVars>>

\* ------------------------------------------- capture thread (_record_audio)
\* with sd.InputStream(...): opening the stream raises when there is no input
\* device; the except clause then sets self.is_recording = False
Cap_Open(c) ==
    /\ cap[c] = "opening"
    /\ IF mic_available
         THEN cap' = [cap EXCEPT ![c] = "running"] /\ UNCHANGED ar_is_recording
         ELSE cap' = [cap EXCEPT ![c] = "failed"] /\ ar_is_recording' = FALSE
    /\ UNCHANGED <<audio_data, recording_thread, recording_start_time, cb, bufVars>>
    /\ UNCHANGED <<srVars, callerVars, envVars, jobVars, budget, keyVars>>

\* while self.is_recording: sd.sleep(100) -- the loop ends when the flag is seen
\* cleared; leaving the with block stops the stream, which waits for a callback
\* in flight
Cap_Exit(c) ==
    /\ cap[c] = "running"
    /\ ~ar_is_recording
    /\ cb[c] = "idle"
    /\ cap' = [cap EXCEPT ![c] = "dead"]
    /\ UNCHANGED <<arVars, cb, bufVars>>
    /\ UNCHANGED <<srVars, callerVars, envVars, jobVars, budget, keyVars>>

\* the stream fails while capturing (the device is gone): the exception leaves
\* the with block and the except clause sets self.is_recording = False
Cap_Error(c) ==
    /\ cap[c] = "running"
    /\ ~mic_available
    /\ cb[c] = "idle"
    /\ cap' = [cap EXCEPT ![c] = "failed"]
    /\ ar_is_recording' = FALSE
    /\ UNCHANGED <<audio_data, recording_thread, recording_start_time, cb, bufVars>>
    /\ UNCHANGED <<srVars, callerVars, envVars, jobVars, budget, keyVars>>

\* audio_callback of stream c: `if self.is_recording:` ...
\* (delivered: the blocks stream c has handed to the callback while the
\* recorder was recording, until the stop_recording() that ends its session
\* has saved)
Cb_Check(c) ==
    /\ cap[c] = "running"
    /\ mic_available
    /\ cb[c] = "idle"
    /\ ar_is_recording
    /\ Len(audio_data) + Cardinality({d \in CapIds : cb[d] = "checked"}) < MaxFrames
    /\ cb' = [cb EXCEPT ![c] = "checked"]
    /\ delivered' = [delivered EXCEPT ![c] = @ + 1]
    /\ UNCHANGED <<arVars, cap, indata, blocks>>
    /\ UNCHANGED <<srVars, callerVars, envVars, jobVars, budget, keyVars>>

\* indata.copy(): a new array holding the samples the buffer of stream c
\* holds now (a block kept without the copy would be the buffer itself)
Copy_ByReference(c) == [copy |-> FALSE, of |-> c, data |-> 0]

Copy(c) == [copy |-> TRUE, of |-> c, data |-> indata[c]]

\* the samples block b holds
BlockData(b) == IF b.copy THEN b.data ELSE indata[b.of]

\* ... `self.audio_data.append(indata.copy())`
Cb_Append(c) ==
    /\ cb[c] = "checked"
    /\ audio_data' = Append(audio_data, c)
    /\ blocks' = Append(blocks, Copy(c))
    /\ cb' = [cb EXCEPT ![c] = "idle"]
    /\ UNCHANGED <<ar_is_recording, recording_thread, recording_start_time, cap, indata, delivered>>
    /\ UNCHANGED <<srVars, callerVars, envVars, jobVars, budget, keyVars>>

\* between two callbacks the stream of capture thread c writes the next
\* samples into the buffer it passes as indata
DeviceFill(c) ==
    /\ cap[c] = "running"
    /\ cb[c] = "idle"
    /\ \E v \in Samples \ {indata[c]} : indata' = [indata EXCEPT ![c] = v]
    /\ UNCHANGED <<cap, cb, blocks, delivered>>
    /\ UNCHANGED <<srVars, arVars, callerVars, envVars, jobVars, budget, keyVars>>

\* ------------------------------------------------------------ environment
\* time passes while no thread reads the clock
Tick ==
    /\ clock < MaxClock
    /\ clock' = clock + 1
    /\ UNCHANGED <<mic_available, devChanges, files, model, cmVars>>
    /\ UNCHANGED <<srVars, arVars, capVars, callerVars, jobVars, budget, keyVars>>

\* the input device is plugged in or removed
DeviceChange ==
    /\ devChanges < MaxDeviceChanges
    /\ devChanges' = devChanges + 1
    /\ mic_available' = ~mic_available
    /\ UNCHANGED <<clock, files, model, cmVars>>
    /\ UNCHANGED <<srVars, arVars, capVars, callerVars, jobVars, budget, keyVars>>

\* --------------------------- transcription worker (_process_transcription)
JobIds == 1..Len(jobs)

SetStatus(j, st) == jobs' = [jobs EXCEPT ![j].status = st]

\* is_model_loaded: self.model is not None
is_model_loaded == model # None

\* transcribe_audio_file up to the engine call: it returns a result with
\* success = False when the model is not loaded or the audio file does not
\* exist
FileExists(p) == p # None /\ files[p] # <<>>

\* `if not self.model` and `if not os.path.exists(...)`; seen: the model the
\* check found.  os.path.exists(None) raises TypeError, outside the try block
\* of transcribe_audio_file: the call raises (result "raised") and the except
\* clause of _process_transcription ends the worker
Job_Start(j) ==
    /\ jobs[j].status = "queued"
    /\ jobs' = [jobs EXCEPT
                  ![j].status = IF is_model_loaded /\ FileExists(jobs[j].path)
                                  THEN "running" ELSE "failed",
                  ![j].seen = IF is_model_loaded /\ FileExists(jobs[j].path)
                                THEN model ELSE jobs[j].seen,
                  ![j].result = CASE ~is_model_loaded -> "error"
                                  [] jobs[j].path = None -> "raised"
                                  [] ~FileExists(jobs[j].path) -> "error"
                                  [] OTHER -> jobs[j].result]
    /\ UNCHANGED <<saved, events, db, dbVars>>
    /\ UNCHANGED <<srVars, arVars, capVars, callerVars, envVars, budget, keyVars>>

\* `self.model.transcribe(` reads self.model again and calls the engine found
\* there; on None the attribute lookup raises, which the except clause of
\* transcribe_audio_file turns into a result with success = False
Job_Call(j) ==
    /\ jobs[j].status = "running"
    /\ IF is_model_loaded
         THEN jobs' = [jobs EXCEPT ![j].status = "calling", ![j].used = model]
         ELSE jobs' = [jobs EXCEPT ![j].status = "failed", ![j].result = "error"]
    /\ UNCHANGED <<saved, events, db, dbVars>>
    /\ UNCHANGED <<srVars, arVars, capVars, callerVars, envVars, budget, keyVars>>

\* what the engine's result is: an error, blank text, or text
ResultKind(r) ==
    IF ~r.ok THEN "error" ELSE IF Strip(r.text) = "" THEN "empty" ELSE "text"

\* _process_transcription: `if result['success'] and result['text'].strip()`
HasText_IgnoresBlank(r) == r.ok

HasText(r) == r.ok /\ Strip(Strip(r.text)) # ""

\* the engine call ends: it raises (success = False) or returns text, which
\* transcribe_audio_file strips, and a confidence
Job_Finish(j, r) ==
    /\ jobs[j].status = "calling"
    /\ jobs' = [jobs EXCEPT ![j].status = IF HasText(r) THEN "transcribed" ELSE "failed",
                            ![j].result = ResultKind(r),
                            ![j].text = Strip(r.text),
                            ![j].conf = r.conf]
    /\ UNCHANGED <<saved, events, db, dbVars>>
    /\ UNCHANGED <<srVars, arVars, capVars, callerVars, envVars, budget, keyVars>>

\* the except clause of _process_transcription: the error is printed and the
\* worker ends
Job_Fail_StopsRecorder(j) ==
    /\ SetStatus(j, "failed")
    /\ sr_is_recording' = FALSE
    /\ UNCHANGED <<current_audio_file, arVars, capVars, callerVars, envVars, budget, keyVars>>

Job_Fail(j) ==
    /\ SetStatus(j, "failed")
    /\ UNCHANGED <<srVars, arVars, capVars, callerVars, envVars, budget, keyVars>>

\* AudioRecorder.get_recording_duration at clock reading n
RecordingDuration(n) ==
    IF recording_start_time = None THEN 0 ELSE n - recording_start_time

\* A row of the table transcriptions (job: the worker that stored it, None
\* for a direct call of save_transcription)
Row(i, text, duration, p, conf, j) ==
    [id |-> i, text |-> text, duration |-> duration,
     audio_file_path |-> p, confidence |-> conf, job |-> j]

\* id INTEGER PRIMARY KEY AUTOINCREMENT: the id of the next row is one more
\* than the largest id the table ever held, which sqlite_sequence remembers
\* (without AUTOINCREMENT it would be one more than the largest id stored now)
NextRowId_LargestStored ==
    IF db = <<>> THEN 1 ELSE Largest({db[k].id : k \in 1..Len(db)}) + 1

NextRowId == db_seq + 1

\* INSERT INTO transcriptions ...; return cursor.lastrowid: the row is stored
\* under the id AUTOINCREMENT gave it, which sqlite_sequence remembers
\* (issued: the ids save_transcription has returned so far)
Insert(row) ==
    /\ db' = Append(db, row)
    /\ db_seq' = row.id
    /\ db_call' = [op |-> "save", id |-> row.id, ret |-> TRUE]
    /\ issued' = issued \cup {row.id}

\* TranscriptionDatabase.save_transcription as _process_transcription calls
\* it: the row INSERT stores, under the next AUTOINCREMENT id
NewRow_DefaultConfidence(j, duration) ==
    Row(NextRowId, jobs[j].text, duration, jobs[j].path, 0, j)

NewRow(j, duration) ==
    Row(NextRowId, jobs[j].text, duration, jobs[j].path, jobs[j].conf, j)

\* duration = get_recording_duration(), which reads datetime.now() (the clock
\* as it stands: Tick is the time that passed before);
\* database.save_transcription(...): the row is stored, or sqlite3 raises
Job_Save(j, ok) ==
    /\ jobs[j].status = "transcribed"
    /\ IF ok
         THEN /\ Insert(NewRow(j, RecordingDuration(clock)))
              /\ SetStatus(j, "saved")
              /\ UNCHANGED <<srVars, arVars, capVars, callerVars, envVars, budget, keyVars>>
         ELSE Job_Fail(j) /\ UNCHANGED <<db, dbVars>>
    /\ UNCHANGED <<saved, events>>

\* self.on_transcription_complete_callback(transcription_id, text): the
\* subscriber is called, and returns or raises
Job_Notify(j, ok) ==
    /\ jobs[j].status = "saved"
    /\ events' = Append(events, [kind |-> "complete", session |-> jobs[j].session, job |-> j])
    /\ IF ok
         THEN /\ SetStatus(j, "succeeded")
              /\ UNCHANGED <<srVars, arVars, capVars, callerVars, envVars, budget, keyVars>>
         ELSE Job_Fail(j)
    /\ UNCHANGED <<saved, db, dbVars>>

\* ----------------------------- change_model (the change_thread of the UI)
\* change_model(m): an invalid name returns False; else self.model_name = m
\* (cm_before: the model and the name the call found)
CM_Call(m) ==
    /\ cm = "idle"
    /\ model_changes < MaxModelChanges
    /\ model_changes' = model_changes + 1
    /\ cm_before' = [model |-> model, model_name |-> model_name]
    /\ IF m \in Models
         THEN model_name' = m /\ cm' = "unload" /\ cm_ret' = "-"
         ELSE cm_ret' = "False" /\ UNCHANGED <<model_name, cm>>
    /\ UNCHANGED <<clock, mic_available, devChanges, files, model>>
    /\ UNCHANGED <<srVars, arVars, capVars, callerVars, jobVars, budget, keyVars>>

\* self.model = None
CM_Unload ==
    /\ cm = "unload"
    /\ model' = None
    /\ cm' = "load"
    /\ UNCHANGED <<clock, mic_available, devChanges, files, model_name, cm_ret,
                   cm_before, model_changes>>
    /\ UNCHANGED <<srVars, arVars, capVars, callerVars, jobVars, budget, keyVars>>

\* the model object whisper.load_model returns: a new one at each load (the
\* one loaded in __init__ is 1)
LoadedModel == model_changes + 1

\* self._load_model(): self.model = whisper.load_model(...), or None when it
\* raises; return self.is_model_loaded()
CM_Load(ok) ==
    /\ cm = "load"
    /\ model' = (IF ok THEN LoadedModel ELSE None)
    /\ cm_ret' = (IF ok THEN "True" ELSE "False")
    /\ cm' = "idle"
    /\ UNCHANGED <<clock, mic_available, devChanges, files, model_name, cm_before,
                   model_changes>>
    /\ UNCHANGED <<srVars, arVars, capVars, callerVars, jobVars, budget, keyVars>>

\* --------------------------------------------------- GlobalKeyboardHandler
\* _is_toggle_combination_pressed
IsToggleCombinationPressed(pressed) == toggle_key_combination \subseteq pressed

\* start_listening: returns False when already listening; the listener cannot
\* be created (ok = "create": self.listener keeps what it held) or cannot be
\* started (ok = "start": self.listener holds a listener that never ran): the
\* except clause returns False and is_listening stays False
Listen(ok) ==
    /\ listener' = (CASE ok = "create" -> listener
                      [] ok = "start" -> "created"
                      [] OTHER -> "running")
    /\ is_listening' = (ok = "yes")
    /\ listen_ret' = (IF ok = "yes" THEN "True" ELSE "False")

StartListening(ok) ==
    /\ ~is_listening
    /\ Listen(ok)
    /\ UNCHANGED <<toggle_key_combination, currently_pressed, recording_active, toggles, held>>
    /\ UNCHANGED <<srVars, arVars, capVars, callerVars, envVars, jobVars, budget>>

\* stop_listening: if self.listener: self.listener.stop(); is_listening = False
StopListening ==
    /\ listener # "none"
    /\ listener' = "stopped"
    /\ is_listening' = FALSE
    /\ UNCHANGED <<toggle_key_combination, currently_pressed,
                   recording_active, toggles, listen_ret, held>>
    /\ UNCHANGED <<srVars, arVars, capVars, callerVars, envVars, jobVars, budget>>

\* the pynput listener calls _on_key_press and _on_key_release from its own
\* thread, which runs from listener.start() to listener.stop(); held is the
\* set of keys that are physically down, whoever hears of them
ListenerDelivers_Unstarted == listener \in {"created", "running"}

ListenerDelivers == listener = "running"

\* _on_key_press: the callback is dispatched on a new thread when the whole
\* combination is pressed and the handler is not armed yet
FiresToggle_OnRepeat(pressed) == IsToggleCombinationPressed(pressed)

FiresToggle(pressed) == IsToggleCombinationPressed(pressed) /\ ~recording_active

\* the listener thread is free to call the next handler: _on_key_press hands
\* the callback to a new thread (threading.Thread(...).start()) and returns,
\* whatever the callbacks dispatched before are doing
ListenerFree_Inline == \A t \in Callers : pc[t] \in {"idle", "off"}

ListenerFree == TRUE

OnKeyPress(k) ==
    /\ ListenerDelivers
    /\ ListenerFree
    /\ toggles < MaxToggles
    /\ held' = held \cup {k}
    /\ currently_pressed' = currently_pressed \cup {k}
    /\ IF FiresToggle(currently_pressed')
         THEN recording_active' = TRUE /\ toggles' = toggles + 1
         ELSE UNCHANGED <<recording_active, toggles>>
    /\ UNCHANGED <<listener, is_listening, toggle_key_combination, listen_ret>>
    /\ UNCHANGED <<srVars, arVars, capVars, callerVars, envVars, jobVars, budget>>

\* _on_key_release
OnKeyRelease(k) ==
    /\ ListenerDelivers
    /\ ListenerFree
    /\ held' = held \ {k}
    /\ currently_pressed' = currently_pressed \ {k}
    /\ recording_active' = (IF ~IsToggleCombinationPressed(currently_pressed')
                              THEN FALSE ELSE recording_active)
    /\ UNCHANGED <<listener, is_listening, toggle_key_combination, toggles, listen_ret>>
    /\ UNCHANGED <<srVars, arVars, capVars, callerVars, envVars, jobVars, budget>>

\* a key goes down or up while no listener thread runs: no handler is called
KeyUnheard(k, down) ==
    /\ ~ListenerDelivers
    /\ held' = (IF down THEN held \cup {k} ELSE held \ {k})
    /\ held' # held
    /\ UNCHANGED <<listener, is_listening, toggle_key_combination, currently_pressed,
                   recording_active, toggles, listen_ret>>
    /\ UNCHANGED <<srVars, arVars, capVars, callerVars, envVars, jobVars, budget>>

\* the combinations of KeyboardShortcuts, over Keys: two keys with one key in
\* common (MAC_CMD_R, CTRL_R) and a single key (F1)
Combos == {{"cmd", "r"}, {"x", "r"}, {"y"}}

\* set_toggle_keys(keys): self.toggle_key_combination = set(keys)
SetToggleKeys(keys) ==
    /\ toggle_key_combination' = keys
    /\ UNCHANGED <<listener, is_listening, currently_pressed, recording_active,
                   toggles, listen_ret, held>>
    /\ UNCHANGED <<srVars, arVars, capVars, callerVars, envVars, jobVars, budget>>

\* --------------------------------------------------- TranscriptionDatabase
\* Arguments of direct calls of save_transcription: texts are sequences of
\* characters (with the two LIKE wildcards among them), duration and
\* confidence may be None, the path may be None.
DbTexts == {<<"a", "b">>, <<"B">>, <<"_", "%">>}
DbDurations == {Null, 0, 2}
DbPaths == {None, 1}
DbConfs == {Null, 9}
DbIds == 1..(MaxSaves + 1)

\* save_transcription(text, duration, audio_file_path, confidence)
DbSave(text, duration, p, conf) ==
    /\ db_seq < MaxSaves
    /\ Insert(Row(NextRowId, text, duration, p, conf, None))
    /\ UNCHANGED <<jobs, saved, events>>
    /\ UNCHANGED <<srVars, arVars, capVars, callerVars, envVars, budget, keyVars>>

\* delete_transcription: `return cursor.rowcount > 0`
Deleted_NonNegative(rowcount) == rowcount >= 0

Deleted(rowcount) == rowcount > 0

\* DELETE FROM transcriptions WHERE id = ?
DbDelete(i) ==
    /\ db' = SelectSeq(db, LAMBDA r : r.id # i)
    /\ db_call' = [op |-> "delete", id |-> i, ret |-> Deleted(Len(db) - Len(db'))]
    /\ UNCHANGED <<db_seq, issued, jobs, saved, events>>
    /\ UNCHANGED <<srVars, arVars, capVars, callerVars, envVars, budget, keyVars>>

\* get_transcription_by_id: fetchone() of SELECT ... WHERE id = ? (None when
\* no row has the id); the rows are given without the column timestamp
GetById(i) ==
    IF \E k \in 1..Len(db) : db[k].id = i
      THEN {db[CHOOSE k \in 1..Len(db) : db[k].id = i]}
      ELSE {}

\* get_all_transcriptions: the rows SELECT returns (their order left out)
GetAll == {db[k] : k \in 1..Len(db)}

\* what LIKE does: % stands for any run of characters, _ for any one
\* character, and letters match whatever their case
Lower(c) == IF c = "A" THEN "a" ELSE IF c = "B" THEN "b" ELSE c

RECURSIVE Like(_, _)
Like(txt, pat) ==
    IF pat = <<>> THEN txt = <<>>
    ELSE IF Head(pat) = "%"
      THEN \E k \in 0..Len(txt) : Like(SubSeq(txt, k + 1, Len(txt)), Tail(pat))
      ELSE /\ txt # <<>>
           /\ Head(pat) = "_" \/ Lower(Head(pat)) = Lower(Head(txt))
           /\ Like(Tail(txt), Tail(pat))

\* search_transcriptions: WHERE text LIKE f'%{search_term}%'
SearchPattern_Prefix(term) == term \o <<"%">>

SearchPattern(term) == <<"%">> \o term \o <<"%">>

Search(term) == {db[k] : k \in {n \in 1..Len(db) : Like(db[n].text, SearchPattern(term))}}

\* the values of column c that are not NULL (... WHERE c IS NOT NULL)
NonNull(c) == SelectSeq([k \in 1..Len(db) |-> db[k][c]], LAMBDA v : v # Null)

RECURSIVE Sum(_)
Sum(vals) == IF vals = <<>> THEN 0 ELSE Head(vals) + Sum(Tail(vals))

\* SUM and AVG of SQL: NULL over no value (the average is exact as long as
\* the confidences stored are equal, which DbConfs and Confs make them)
SqlSum(vals) == IF vals = <<>> THEN Null ELSE Sum(vals)
SqlAvg(vals) == IF vals = <<>> THEN Null ELSE Sum(vals) \div Len(vals)

\* `cursor.fetchone()[0] or 0`: None and 0.0 give 0
OrZero_Missing(x) == x

OrZero(x) == IF x = Null THEN 0 ELSE x

\* get_stats
GetStats ==
    [total_transcriptions |-> Len(db),
     total_duration_seconds |-> OrZero(SqlSum(NonNull("duration"))),
     average_confidence |-> OrZero(SqlAvg(NonNull("confidence")))]

\* ------------------------------------------- SpeechRecorder.start_service
\* `if not self.speech_processor.is_model_loaded(): return False`
SVC_ModelCheck(t) ==
    /\ pc[t] = "svc_model"
    /\ IF is_model_loaded
         THEN Goto(t, "svc_mic") /\ UNCHANGED <<ret, path, jt, sess>>
         ELSE Return(t, "False")
    /\ UNCHANGED <<op, idle_at_call>>
    /\ UNCHANGED <<srVars, arVars, capVars, envVars, jobVars, budget, keyVars>>

\* AudioRecorder.is_microphone_available: some device has input channels
is_microphone_available_Always == TRUE

is_microphone_available == mic_available

\* `if not self.audio_recorder.is_microphone_available(): return False`
SVC_MicCheck(t) ==
    /\ pc[t] = "svc_mic"
    /\ IF is_microphone_available
         THEN Goto(t, "svc_listen") /\ UNCHANGED <<ret, path, jt, sess>>
         ELSE Return(t, "False")
    /\ UNCHANGED <<op, idle_at_call>>
    /\ UNCHANGED <<srVars, arVars, capVars, envVars, jobVars, budget, keyVars>>

\* success = self.keyboard_handler.start_listening(); return success
SVC_Listen(t, ok) ==
    /\ pc[t] = "svc_listen"
    /\ IF is_listening
         THEN /\ Return(t, "False")
              /\ listen_ret' = "False"
              /\ UNCHANGED <<listener, is_listening>>
         ELSE /\ Listen(ok)
              /\ Return(t, listen_ret')
    /\ UNCHANGED <<toggle_key_combination, currently_pressed, recording_active, toggles, held>>
    /\ UNCHANGED <<op, idle_at_call>>
    /\ UNCHANGED <<srVars, arVars, capVars, envVars, jobVars, budget>>

\* ------------------------------------------- SpeechRecorder.stop_service
\* a thread (the UI's Stop Service button, or main on exit) enters stop_service
SVC_StopCall(t) ==
    /\ pc[t] = "idle"
    /\ op[t] = "-"
    /\ op' = [op EXCEPT ![t] = "stop_service"]
    /\ pc' = [pc EXCEPT ![t] = "svc_stop"]
    /\ idle_at_call' = [idle_at_call EXCEPT ![t] = ~sr_is_recording]
    /\ UNCHANGED <<ret, path, jt, sess>>
    /\ UNCHANGED <<srVars, arVars, capVars, envVars, jobVars, budget, keyVars>>

\* self.keyboard_handler.stop_listening()
SVC_StopListen(t) ==
    /\ pc[t] = "svc_stop"
    /\ IF listener # "none"
         THEN listener' = "stopped" /\ is_listening' = FALSE
         ELSE UNCHANGED <<listener, is_listening>>
    /\ Goto(t, "svc_stop_if")
    /\ UNCHANGED <<toggle_key_combination, currently_pressed,
                   recording_active, toggles, listen_ret, held>>
    /\ UNCHANGED <<op, idle_at_call, ret, path, jt, sess>>
    /\ UNCHANGED <<srVars, arVars, capVars, envVars, jobVars, budget>>

\* `if self.is_recording: self.stop_recording()`, then the method returns
SVC_StopIf(t) ==
    /\ pc[t] = "svc_stop_if"
    /\ IF sr_is_recording
         THEN Goto(t, "sr_stop_chk") /\ UNCHANGED <<ret, path, jt, sess>>
         ELSE Return(t, "None")
    /\ UNCHANGED <<op, idle_at_call>>
    /\ UNCHANGED <<srVars, arVars, capVars, envVars, jobVars, budget, keyVars>>

\* a thread _on_key_press started begins to run its target, toggle_recording:
\* fewer workers have begun (MaxWorkers - budget) than were dispatched
WorkerStart(t) ==
    /\ MaxWorkers - budget < toggles
    /\ Call(t, "toggle")

\* --------------------------------------------------------- specifications
CallerStep(t) ==
    \/ SR_Toggle(t) \/ SR_StartCheck(t) \/ AR_StartCheck(t) \/ AR_StartSet(t)
    \/ AR_StartData(t) \/ AR_StartTime(t) \/ AR_StartThread(t)
    \/ AR_StartCallback(t) \/ SR_StartSet(t)
    \/ SR_StopCheck(t) \/ AR_StopCheck(t) \/ AR_StopClear(t) \/ AR_StopJoin(t)
    \/ AR_StopWait(t) \/ AR_StopCallback(t) \/ AR_StopSave(t) \/ SR_StopFile(t)
    \/ SR_StopFlag(t) \/ SR_StopIf(t) \/ SR_StopSpawn(t) \/ SR_StopReturn(t)

CaptureStep(c) ==
    \/ Cap_Open(c) \/ Cap_Exit(c) \/ Cap_Error(c) \/ Cb_Check(c) \/ Cb_Append(c)

JobStep ==
    \E j \in JobIds :
        \/ Job_Start(j)
        \/ Job_Call(j)
        \/ \E r \in EngineResults : Job_Finish(j, r)
        \/ \E ok \in BOOLEAN : Job_Save(j, ok)
        \/ \E ok \in BOOLEAN : Job_Notify(j, ok)

\* The coordinator with the hotkey worker and the UI thread calling it, with
\* a working input device.
Init ==
    /\ InitRecorder
    /\ InitKeys
    /\ pc = [t \in Callers |-> "idle"]
    /\ budget = MaxCalls
    /\ mic_available = TRUE
    /\ model = 1

Next ==
    \/ \E t \in Callers : \E o \in {"start", "stop", "toggle"} : Call(t, o)
    \/ \E t \in Callers : CallerStep(t)
    \/ \E c \in CapIds : Cap_Open(c) \/ Cap_Exit(c) \/ Cb_Check(c) \/ Cb_Append(c)

Spec == Init /\ [][Next]_vars

\* One caller: the calls follow one another (thread "ui" never calls), the
\* device comes and goes and the transcription workers run.
InitSeq ==
    /\ InitRecorder
    /\ InitKeys
    /\ pc = [t \in Callers |-> IF t = "hotkey" THEN "idle" ELSE "off"]
    /\ budget = MaxSeqCalls
    /\ mic_available \in BOOLEAN
    /\ model \in {None, 1}

NextSeq ==
    \/ \E t \in Callers : \E o \in {"start", "stop", "toggle"} : Call(t, o)
    \/ \E t \in Callers : CallerStep(t)
    \/ \E c \in CapIds : CaptureStep(c)
    \/ DeviceChange
    \/ JobStep

SpecSeq == InitSeq /\ [][NextSeq]_vars

\* One caller and a working device: the calls follow one another while the
\* transcription workers of the sessions it stopped run, with the model loaded
\* or not.
InitBusy ==
    /\ InitRecorder
    /\ InitKeys
    /\ pc = [t \in Callers |-> IF t = "hotkey" THEN "idle" ELSE "off"]
    /\ budget = MaxSeqCalls
    /\ mic_available = TRUE
    /\ model \in {None, 1}

NextBusy ==
    \/ \E t \in Callers : \E o \in {"start", "stop", "toggle"} : Call(t, o)
    \/ \E t \in Callers : CallerStep(t)
    \/ \E c \in CapIds : Cap_Open(c) \/ Cap_Exit(c) \/ Cb_Check(c) \/ Cb_Append(c)
    \/ JobStep

SpecBusy == InitBusy /\ [][NextBusy]_vars

\* Two threads each call start_recording() once on the Idle coordinator.
InitStartRace ==
    /\ InitRecorder
    /\ InitKeys
    /\ pc = [t \in Callers |-> "idle"]
    /\ budget = Cardinality(Callers)
    /\ mic_available = TRUE
    /\ model = 1

NextStartRace ==
    \/ \E t \in Callers : op[t] = "-" /\ Call(t, "start")
    \/ \E t \in Callers :
          \/ SR_StartCheck(t) \/ AR_StartCheck(t) \/ AR_StartSet(t)
          \/ AR_StartData(t) \/ AR_StartTime(t) \/ AR_StartThread(t)
          \/ AR_StartCallback(t) \/ SR_StartSet(t)
    \/ \E c \in CapIds : Cap_Open(c) \/ Cb_Check(c) \/ Cb_Append(c)

SpecStartRace == InitStartRace /\ [][NextStartRace]_vars

\* The hotkey worker and the UI thread call toggle_recording, with a working
\* device: the way the recorder is driven once the service runs.
InitToggle ==
    /\ InitRecorder
    /\ InitKeys
    /\ pc = [t \in Callers |-> "idle"]
    /\ budget = MaxToggleCalls
    /\ mic_available = TRUE
    /\ model = 1

NextToggle ==
    \/ \E t \in Callers : Call(t, "toggle")
    \/ \E t \in Callers : CallerStep(t)
    \/ \E c \in CapIds : Cap_Open(c) \/ Cap_Exit(c) \/ Cb_Check(c) \/ Cb_Append(c)

SpecToggle == InitToggle /\ [][NextToggle]_vars

\* The two callers of SpecToggle under fair scheduling: a thread that can take
\* a step is not held back for ever, a stream that can open opens, a capture
\* thread that sees the flag cleared leaves its loop, and a callback in flight
\* completes.  Nothing obliges anybody to call toggle_recording again.
InitLive ==
    /\ InitRecorder
    /\ InitKeys
    /\ pc = [t \in Callers |-> "idle"]
    /\ budget = MaxLiveCalls
    /\ mic_available = TRUE
    /\ model = 1

NextLive ==
    \/ \E t \in Callers : Call(t, "toggle")
    \/ \E t \in Callers : CallerStep(t)
    \/ \E c \in CapIds : Cap_Open(c) \/ Cap_Exit(c) \/ Cb_Check(c) \/ Cb_Append(c)

FairLive ==
    /\ \A t \in Callers : WF_vars(CallerStep(t))
    /\ \A c \in CapIds : WF_vars(Cap_Open(c)) /\ WF_vars(Cap_Exit(c)) /\ WF_vars(Cb_Append(c))

SpecLive == InitLive /\ [][NextLive]_vars /\ FairLive

\* One caller, a working device, the transcription workers and a thread that
\* changes the model.  The caller uses the coordinator (toggle_recording), or
\* the AudioRecorder on its own, as test_app.py uses it (AudioRecorder.toggle_recording).
InitJobs ==
    /\ InitRecorder
    /\ InitKeys
    /\ pc = [t \in Callers |-> IF t = "hotkey" THEN "idle" ELSE "off"]
    /\ budget = MaxJobCalls
    /\ mic_available = TRUE
    /\ model = 1

NextJobs ==
    \/ \E t \in Callers : op[t] \in {"-", "toggle"} /\ Call(t, "toggle")
    \/ \E t \in Callers : op[t] \in {"-", "ar_toggle"} /\ Call(t, "ar_toggle")
    \/ \E t \in Callers : CallerStep(t) \/ AR_Toggle(t)
    \/ \E c \in CapIds : Cap_Open(c) \/ Cap_Exit(c) \/ Cb_Check(c) \/ Cb_Append(c)
    \/ JobStep
    \/ \E m \in ModelNames : CM_Call(m)
    \/ CM_Unload
    \/ \E ok \in BOOLEAN : CM_Load(ok)

SpecJobs == InitJobs /\ [][NextJobs]_vars

\* One caller toggles through two sessions with a working device while the
\* transcription workers of the sessions it stopped run.
InitLater ==
    /\ InitRecorder
    /\ InitKeys
    /\ pc = [t \in Callers |-> IF t = "hotkey" THEN "idle" ELSE "off"]
    /\ budget = MaxLaterCalls
    /\ mic_available = TRUE
    /\ model = 1

NextLater ==
    \/ \E t \in Callers : Call(t, "toggle")
    \/ \E t \in Callers : CallerStep(t)
    \/ \E c \in CapIds : Cap_Open(c) \/ Cap_Exit(c) \/ Cb_Check(c) \/ Cb_Append(c)
    \/ JobStep

SpecLater == InitLater /\ [][NextLater]_vars

\* The key handler alone: the listener starts and stops, keys go down and up.
InitKeyHandler ==
    /\ InitRecorder
    /\ InitKeys
    /\ pc = [t \in Callers |-> "off"]
    /\ budget = 0
    /\ mic_available = TRUE
    /\ model = 1

NextKeys ==
    \/ \E ok \in {"yes", "create", "start"} : StartListening(ok)
    \/ StopListening
    \/ \E k \in Keys : OnKeyPress(k)
    \/ \E k \in Keys : OnKeyRelease(k)

SpecKeys == InitKeyHandler /\ [][NextKeys]_vars

\* start_service is called (by the UI's service thread or by main) while the
\* input device comes and goes, the listener is stopped and keys go down and
\* up; the model was loaded at construction or failed to load.
InitService ==
    /\ InitRecorder
    /\ InitKeys
    /\ pc = [t \in Callers |-> IF t = "ui" THEN "idle" ELSE "off"]
    /\ budget = MaxServiceCalls
    /\ mic_available \in BOOLEAN
    /\ model \in {None, 1}

NextService ==
    \/ \E t \in Callers : Call(t, "start_service")
    \/ \E t \in Callers : SVC_ModelCheck(t) \/ SVC_MicCheck(t)
    \/ \E t \in Callers : \E ok \in {"yes", "create", "start"} : SVC_Listen(t, ok)
    \/ StopListening
    \/ DeviceChange
    \/ \E k \in Keys : OnKeyPress(k)
    \/ \E k \in Keys : OnKeyRelease(k)

SpecService == InitService /\ [][NextService]_vars

\* The two callers of SpecLive with the transcription workers of the sessions
\* they stopped.
InitHandoff ==
    /\ InitRecorder
    /\ InitKeys
    /\ pc = [t \in Callers |-> "idle"]
    /\ budget = MaxLiveCalls
    /\ mic_available = TRUE
    /\ model = 1

NextHandoff ==
    \/ \E t \in Callers : Call(t, "toggle")
    \/ \E t \in Callers : CallerStep(t)
    \/ \E c \in CapIds : Cap_Open(c) \/ Cap_Exit(c) \/ Cb_Check(c) \/ Cb_Append(c)
    \/ JobStep

SpecHandoff == InitHandoff /\ [][NextHandoff]_vars

\* The running service: the listener delivers the keys of the combination,
\* and the workers the key handler starts run toggle_recording with a working
\* device, one after the other (a worker dispatched while another is inside
\* the call has not begun).
InitHotkey ==
    /\ InitRecorder
    /\ InitKeys
    /\ pc = [t \in Callers |-> IF t = "hotkey" THEN "idle" ELSE "off"]
    /\ budget = MaxWorkers
    /\ mic_available = TRUE
    /\ model = 1

NextHotkey ==
    \/ StartListening("yes")
    \/ \E k \in toggle_key_combination : OnKeyPress(k)
    \/ \E k \in toggle_key_combination : OnKeyRelease(k)
    \/ \E t \in Callers : WorkerStart(t)
    \/ \E t \in Callers : CallerStep(t)
    \/ \E c \in CapIds : Cap_Open(c) \/ Cap_Exit(c) \/ Cb_Check(c) \/ Cb_Append(c)

SpecHotkey == InitHotkey /\ [][NextHotkey]_vars

\* One caller toggles with a working device while the stream goes on
\* refilling the buffer it hands to the callback.
InitFill ==
    /\ InitRecorder
    /\ InitKeys
    /\ pc = [t \in Callers |-> IF t = "hotkey" THEN "idle" ELSE "off"]
    /\ budget = MaxFillCalls
    /\ mic_available = TRUE
    /\ model = 1

NextFill ==
    \/ \E t \in Callers : Call(t, "toggle")
    \/ \E t \in Callers : CallerStep(t)
    \/ \E c \in CapIds : Cap_Open(c) \/ Cap_Exit(c) \/ Cb_Check(c) \/ Cb_Append(c)
    \/ \E c \in CapIds : DeviceFill(c)

SpecFill == InitFill /\ [][NextFill]_vars

\* One caller toggles with a working device while time passes and the
\* transcription workers of the sessions it stopped run.
InitSpan ==
    /\ InitRecorder
    /\ InitKeys
    /\ pc = [t \in Callers |-> IF t = "hotkey" THEN "idle" ELSE "off"]
    /\ budget = MaxJobCalls
    /\ mic_available = TRUE
    /\ model = 1

NextSpan ==
    \/ \E t \in Callers : Call(t, "toggle")
    \/ \E t \in Callers : CallerStep(t)
    \/ \E c \in CapIds : Cap_Open(c) \/ Cap_Exit(c) \/ Cb_Check(c) \/ Cb_Append(c)
    \/ JobStep
    \/ Tick

SpecSpan == InitSpan /\ [][NextSpan]_vars

\* The database alone: rows are saved and deleted through its methods.
InitDb ==
    /\ InitRecorder
    /\ InitKeys
    /\ pc = [t \in Callers |-> "off"]
    /\ budget = 0
    /\ mic_available = TRUE
    /\ model = 1

NextDb ==
    \/ \E text \in DbTexts : \E duration \in DbDurations :
          \E p \in DbPaths : \E conf \in DbConfs : DbSave(text, duration, p, conf)
    \/ \E i \in DbIds : DbDelete(i)

SpecDb == InitDb /\ [][NextDb]_vars

\* The running service with two worker threads: the workers the key handler
\* starts run toggle_recording side by side, with a working device.
InitWorkers ==
    /\ InitRecorder
    /\ InitKeys
    /\ pc = [t \in Callers |-> "idle"]
    /\ budget = MaxWorkers
    /\ mic_available = TRUE
    /\ model = 1

NextWorkers ==
    \/ StartListening("yes")
    \/ \E k \in toggle_key_combination : OnKeyPress(k)
    \/ \E k \in toggle_key_combination : OnKeyRelease(k)
    \/ \E t \in Callers : WorkerStart(t)
    \/ \E t \in Callers : CallerStep(t)
    \/ \E c \in CapIds : Cap_Open(c) \/ Cap_Exit(c) \/ Cb_Check(c) \/ Cb_Append(c)

SpecWorkers == InitWorkers /\ [][NextWorkers]_vars

\* The running service is stopped: the listener delivers the keys of the
\* combination, the worker threads the key handler starts run
\* toggle_recording one after the other with a working device, and another
\* thread calls stop_service once; the service is not started again.
InitStop ==
    /\ InitRecorder
    /\ InitKeys
    /\ pc = [t \in Callers |-> "idle"]
    /\ budget = MaxWorkers
    /\ mic_available = TRUE
    /\ model = 1

NextStop ==
    \/ listener = "none" /\ StartListening("yes")
    \/ \E k \in toggle_key_combination : OnKeyPress(k)
    \/ \E k \in toggle_key_combination : OnKeyRelease(k)
    \/ WorkerStart("hotkey")
    \/ SVC_StopCall("ui")
    \/ SVC_StopListen("ui")
    \/ SVC_StopIf("ui")
    \/ \E t \in Callers : CallerStep(t)
    \/ \E c \in CapIds : Cap_Open(c) \/ Cap_Exit(c) \/ Cb_Check(c) \/ Cb_Append(c)

SpecStop == InitStop /\ [][NextStop]_vars

\* The key handler over listening periods: the listener is started and
\* stopped again and again while keys go down and up, heard by the handlers
\* while a listener runs and unheard otherwise.
InitCycle ==
    /\ InitRecorder
    /\ InitKeys
    /\ pc = [t \in Callers |-> "off"]
    /\ budget = 0
    /\ mic_available = TRUE
    /\ model = 1

NextCycle ==
    \/ StartListening("yes")
    \/ StopListening
    \/ \E k \in Keys : OnKeyPress(k)
    \/ \E k \in held : OnKeyRelease(k)
    \/ \E k \in Keys : \E down \in BOOLEAN : KeyUnheard(k, down)

SpecCycle == InitCycle /\ [][NextCycle]_vars

\* The key handler of a running listener whose combination is changed with
\* set_toggle_keys while keys go down and up.
InitCombo ==
    /\ InitRecorder
    /\ InitKeys
    /\ pc = [t \in Callers |-> "off"]
    /\ budget = 0
    /\ mic_available = TRUE
    /\ model = 1

NextCombo ==
    \/ StartListening("yes")
    \/ \E k \in Keys : OnKeyPress(k)
    \/ \E k \in held : OnKeyRelease(k)
    \/ \E keys \in Combos : SetToggleKeys(keys)

SpecCombo == InitCombo /\ [][NextCombo]_vars

\* ------------------------------------------------------------------ claims
AllIdle == \A t \in Callers : pc[t] \in {"idle", "off"}
Created == {c \in CapIds : cap[c] # "none"}
JobsOf(s) == {j \in JobIds : jobs[j].session = s}

\* C1: when two threads call start_recording() concurrently on the Idle
\* coordinator, once both have returned exactly one has returned True and
\* exactly one capture thread has been created.
C1_ExactlyOneStartWins ==
    (\A t \in Callers : pc[t] = "idle" /\ ret[t] # "-")
        => /\ Cardinality({t \in Callers : ret[t] = "True"}) = 1
           /\ Cardinality(Created) = 1

\* C2: in every reachable state at most one capture thread has its input
\* stream open.
C2_AtMostOneCapturing ==
    Cardinality({c \in CapIds : cap[c] = "running"}) <= 1

\* C3: a toggle callback is dispatched by a step exactly when that step takes
\* the pressed-key set from not containing the whole combination to containing
\* it, and then exactly one is dispatched; so the two counts are equal.
C3_ToggleIffPressEdge ==
    [][/\ toggles' \in {toggles, toggles + 1}
       /\ (toggles' = toggles + 1) <=>
             (/\ ~IsToggleCombinationPressed(currently_pressed)
              /\ IsToggleCombinationPressed(currently_pressed'))]_vars

\* C3 witness: the combination is held for the second time, two toggles were
\* dispatched, and a key outside the combination is down as well.
C3_Witness ==
    /\ toggles = 2
    /\ IsToggleCombinationPressed(currently_pressed)
    /\ "x" \in currently_pressed

\* C4: no session gets two transcription jobs, and once every caller has
\* returned each session saved with at least one frame has exactly one.
C4_OneJobPerSavedSession ==
    /\ \A s \in CapIds : Cardinality(JobsOf(s)) <= 1
    /\ AllIdle => \A s \in saved : Cardinality(JobsOf(s)) = 1

\* C5: a stop_recording() call that ended a session with an empty frame list
\* (AudioRecorder.stop_recording cleared the flag and returned None) never
\* starts a transcription worker.
C5_EmptySessionStartsNoWorker ==
    \A t \in Callers :
        (sess[t] # None /\ path[t] = None) => pc[t] # "sr_stop_spawn"

\* C6: a start_recording() that finds the coordinator (or the recorder)
\* recording returns False, and that step leaves the frame list, the start
\* time, the capture threads, both recording flags and the callbacks as they
\* were.
C6_StartWhileCapturingIsNoOp ==
    [][\A t \in Callers :
          (/\ \/ pc[t] = "sr_start_chk" /\ sr_is_recording
              \/ pc[t] = "ar_start_chk" /\ ar_is_recording
           /\ pc'[t] # pc[t])
          => /\ pc'[t] = "idle"
             /\ ret'[t] = "False"
             /\ UNCHANGED <<audio_data, recording_start_time, recording_thread,
                            cap, ar_is_recording, sr_is_recording, events>>]_vars

\* C6 witness: a start_recording() returned False while a session is capturing
\* and holds a frame.
C6_Witness ==
    \E t \in Callers :
        /\ op[t] = "start" /\ pc[t] = "idle" /\ ret[t] = "False"
        /\ ~idle_at_call[t]
        /\ sr_is_recording /\ ar_is_recording
        /\ Len(audio_data) > 0

\* C7: a stop_recording() that finds the coordinator Idle returns None, and
\* that step fires no callback, saves no file, creates no job and leaves the
\* coordinator Idle.
C7_StopWhileIdleIsNoOp ==
    [][\A t \in Callers :
          (pc[t] = "sr_stop_chk" /\ ~sr_is_recording /\ pc'[t] # pc[t])
          => /\ pc'[t] = "idle"
             /\ ret'[t] = "None"
             /\ ~sr_is_recording'
             /\ UNCHANGED <<events, files, jobs, current_audio_file, arVars, cap>>]_vars

\* C7 witness: a stop_recording() issued on the Idle coordinator has returned
\* None and nothing was ever recorded.
C7_Witness ==
    \E t \in Callers :
        /\ op[t] = "stop" /\ pc[t] = "idle" /\ ret[t] = "None"
        /\ idle_at_call[t]
        /\ ~sr_is_recording /\ events = <<>> /\ jobs = <<>>

\* C8: no start_recording() returns True while the speech model is not
\* loaded, or while there is no input device (the device did not change
\* during the behaviour, so it was missing at the call).
C8_StartFailsWithoutDeviceOrModel ==
    \A t \in Callers :
        (op[t] = "start" /\ ret[t] = "True" /\ devChanges = 0)
            => (is_model_loaded /\ mic_available)

\* C9: once the capture thread of the latest session has ended in a device
\* error after it captured a frame, and no call is in progress, the
\* coordinator is Idle.
C9_IdleAfterDeviceError ==
    (/\ AllIdle
     /\ recording_thread # None
     /\ cap[recording_thread] = "failed"
     /\ Len(audio_data) > 0)
        => ~sr_is_recording

\* C10: with one caller, stop_recording() can always take its steps after
\* AudioRecorder.stop_recording() returned (it waits for no transcription
\* job), and a start_recording() issued while the coordinator is Idle (so
\* after the stop_recording() before it returned) returns True, whatever
\* the state of the transcription jobs.
C10_StartSucceedsWhileTranscribing ==
    \A t \in Callers :
        /\ pc[t] \in {"sr_stop_file", "sr_stop_flag", "sr_stop_if",
                      "sr_stop_spawn", "sr_stop_ret"} => ENABLED CallerStep(t)
        /\ (pc[t] = "idle" /\ op[t] = "start" /\ idle_at_call[t]) => ret[t] = "True"

\* C10 witness: stop_recording() has returned a file, the next
\* start_recording() has returned True, and the job of the stopped session is
\* still running.
C10_Witness ==
    /\ pc["hotkey"] = "idle" /\ op["hotkey"] = "start" /\ ret["hotkey"] = "True"
    /\ \E j \in JobIds : jobs[j].status = "running"

\* the rows a worker stored and the transcription-complete callbacks it made
RowsOf(j) == {i \in 1..Len(db) : db[i].job = j}
CompletesOf(j) == {i \in 1..Len(events) : events[i].kind = "complete" /\ events[i].job = j}

\* C11: while a transcription job is between its model check and the end of
\* its transcribe call, self.model is the model that check found: a
\* change_model() issued meanwhile has not unloaded or replaced it.
C11_NoModelSwapUnderRunningJob ==
    \A j \in JobIds :
        jobs[j].status \in {"running", "calling"} => model = jobs[j].seen

C13_NoRecordWithoutText ==
    \A j \in JobIds :
        jobs[j].result \in {"empty", "error"} =>
            RowsOf(j) = {} /\ CompletesOf(j) = {}

\* C13 witness: the engine returned blank text; the worker has ended, nothing
\* is stored and the last callback is the recording-stop one.
C13_Witness ==
    \E j \in JobIds :
        /\ jobs[j].result = "empty" /\ jobs[j].status = "failed"
        /\ db = <<>>
        /\ events[Len(events)].kind = "stop"

\* the callbacks made for session s, by kind, as positions in the order made
EventsOf(kind, s) ==
    {i \in 1..Len(events) : events[i].kind = kind /\ events[i].session = s}

\* C14: in the order the subscriber callbacks are made, every recording-stop
\* callback of a session comes after a recording-start callback of that
\* session, every transcription-complete callback after a recording-stop
\* callback of its session, and the start and stop callbacks of an earlier
\* session never come after those of a later session.
C14_CallbacksInTransitionOrder ==
    /\ \A i \in 1..Len(events) :
          /\ events[i].kind = "stop" =>
                \E k \in EventsOf("start", events[i].session) : k < i
          /\ events[i].kind = "complete" =>
                \E k \in EventsOf("stop", events[i].session) : k < i
    /\ \A i, k \in 1..Len(events) :
          (/\ i < k
           /\ events[i].kind \in {"start", "stop"}
           /\ events[k].kind \in {"start", "stop"})
              => events[i].session <= events[k].session

\* C15: every block in the frame list was delivered by the stream of the
\* session the list belongs to (the one start_recording() last created): no
\* stream opened for another session has appended to it.
C15_FramesFromOwnSession ==
    \A i \in 1..Len(audio_data) : audio_data[i] = recording_thread

\* C16: when AudioRecorder.stop_recording() reads a frame list that holds
\* blocks, to save it, no capture thread is alive and no audio callback is in
\* flight, so nothing can be appended to what it saves.
C16_SavedAfterStreamsClosed ==
    \A t \in Callers :
        (pc[t] = "ar_stop_save" /\ Len(audio_data) > 0)
            => \A c \in CapIds : ~IsAlive(c) /\ cb[c] = "idle"

\* C17: under fair scheduling, a stop_recording() that found the recorder
\* capturing (it is about to clear the flag and join the capture thread)
\* eventually returns.
C17_StopEventuallyReturns ==
    \A t \in Callers : (pc[t] = "ar_stop_clear") ~> (pc[t] = "idle")

\* C18: a step in which a transcription worker fails (error result, blank
\* text, an exception while saving or notifying) changes nothing of the
\* coordinator, the recorder, the capture threads, the callers, the engine or
\* the stored rows; and once a worker has failed, the caller can still take
\* every step of its call and begin the next one, the model is still loaded
\* and the file of every queued worker still exists, so a later session is
\* started, stopped, transcribed and saved as before.
C18_FailedJobLeavesServiceUsable ==
    /\ [][(\E j \in JobIds : jobs[j].status # "failed" /\ jobs'[j].status = "failed")
            => UNCHANGED <<srVars, arVars, capVars, callerVars, envVars, db, saved>>]_vars
    /\ []((\E j \in JobIds : jobs[j].status = "failed") =>
            /\ \A t \in Callers :
                  /\ (pc[t] = "idle" /\ budget > 0) => ENABLED Call(t, "toggle")
                  /\ pc[t] \notin {"idle", "off", "ar_stop_wait"} => ENABLED CallerStep(t)
            /\ is_model_loaded
            /\ \A k \in JobIds : jobs[k].status = "queued" => FileExists(jobs[k].path))

\* C18 witness: the worker of the first session failed and the worker of the
\* second session has stored its row and made its callback.
C18_Witness ==
    \E j, k \in JobIds :
        /\ j < k
        /\ jobs[j].status = "failed"
        /\ jobs[k].status = "succeeded"
        /\ RowsOf(k) # {}

\* C19: with one caller and a working device, a toggle_recording() that has
\* returned was a start_recording() that returned True and left the
\* coordinator (and the recorder) recording when it was called on the Idle
\* coordinator, and a stop_recording() that left both not recording when it
\* was called while Capturing; and AudioRecorder.toggle_recording() has
\* returned True exactly when the recorder is recording.
C19_ToggleSwitchesState ==
    \A t \in Callers :
        (pc[t] = "idle" /\ ret[t] # "-") =>
            /\ (op[t] = "toggle" /\ idle_at_call[t]) =>
                  ret[t] = "True" /\ sr_is_recording /\ ar_is_recording
            /\ (op[t] = "toggle" /\ ~idle_at_call[t]) =>
                  ret[t] \in {"path", "None"} /\ ~sr_is_recording /\ ~ar_is_recording
            /\ op[t] = "ar_toggle" =>
                  /\ ret[t] \in {"True", "False"}
                  /\ (ret[t] = "True") <=> ar_is_recording
                  /\ idle_at_call[t] <=> ar_is_recording

\* C19 witness: the second toggle_recording() of the caller has stopped the
\* session the first one started, and returned its file.
C19_Witness ==
    \E t \in Callers :
        /\ pc[t] = "idle" /\ op[t] = "toggle" /\ ret[t] = "path"
        /\ ~idle_at_call[t]
        /\ ~sr_is_recording
        /\ events # <<>> /\ events[1].kind = "start"

\* C20: while the last start_listening() has returned False because the
\* listener could not be created or started, is_listening is False, no
\* listener is running and no step dispatches a toggle callback.
C20_FailedListenerStaysInert ==
    /\ [](listen_ret = "False" => ~is_listening /\ listener # "running")
    /\ [][listen_ret = "False" => toggles' = toggles]_vars

\* C20 witness: a toggle was dispatched in an earlier listening period, the
\* listener was stopped, and the next start_listening() failed to start the
\* listener it created, with the combination still held.
C20_Witness ==
    /\ listen_ret = "False"
    /\ listener = "created"
    /\ toggles = 1
    /\ IsToggleCombinationPressed(currently_pressed)

\* the capture span of the session job j transcribes: from the clock reading
\* at which it began to the one its file is named after, taken when
\* stop_recording() saved it
SpanOf(j) == jobs[j].path - jobs[j].start

\* C21: the duration stored with a job's row is the length of the capture span
\* (from the start of the session whose file the job transcribed to the stop
\* that saved that file), whatever started or however much time passed between
\* that stop and the save.
C21_DurationIsSessionSpan ==
    \A i \in 1..Len(db) : db[i].duration = SpanOf(db[i].job)

\* C22: at most one transcription job is inside the engine's transcribe call
\* at any instant; the job of a later session does not enter it while the job
\* of an earlier session is still in it.
C22_OneJobInEngine ==
    Cardinality({j \in JobIds : jobs[j].status = "calling"}) <= 1

\* C23: a start_service() that finds the speech model not loaded, or no
\* microphone, returns False at that step and leaves the listener and
\* is_listening (is_service_running()) as they were; a start_service() that
\* returns True leaves the listener running and is_listening set; and no
\* toggle is dispatched while the listener is not running.
C23_ServiceNeedsModelAndMicrophone ==
    [][/\ \A t \in Callers :
            /\ (/\ \/ (pc[t] = "svc_model" /\ model = None)
                    \/ (pc[t] = "svc_mic" /\ ~mic_available)
                 /\ pc'[t] # pc[t])
                   => /\ pc'[t] = "idle" /\ ret'[t] = "False"
                      /\ UNCHANGED <<listener, is_listening, toggles>>
            /\ (/\ op[t] = "start_service" /\ pc[t] # "idle"
                 /\ pc'[t] = "idle" /\ ret'[t] = "True")
                   => is_listening' /\ listener' = "running"
       /\ listener # "running" => toggles' = toggles]_vars

\* C23 witness: with the model loaded and no microphone, start_service() has
\* returned False, the service is not running and no toggle was dispatched.
C23_Witness ==
    /\ pc["ui"] = "idle" /\ op["ui"] = "start_service" /\ ret["ui"] = "False"
    /\ model # None /\ ~mic_available /\ devChanges = 0
    /\ listener = "none" /\ ~is_listening /\ toggles = 0

\* the contiguous pieces of a text, the empty one included
Substrings(txt) ==
    {SubSeq(txt, a, b) : a \in 1..(Len(txt) + 1), b \in 0..Len(txt)}

\* C24: a row that was saved and not deleted since is what
\* get_transcription_by_id returns for its id, is among the rows of
\* get_all_transcriptions, and is among the rows of search_transcriptions(s)
\* for every substring s of its text; and the id save_transcription has just
\* returned is the id of the row holding its arguments, the last one stored.
C24_SavedRowIsFound ==
    /\ \A k \in 1..Len(db) :
          /\ GetById(db[k].id) = {db[k]}
          /\ db[k] \in GetAll
          /\ \A term \in Substrings(db[k].text) : db[k] \in Search(term)
    /\ db_call.op = "save" => /\ db # <<>>
                              /\ db[Len(db)].id = db_call.id

\* C24 witness: two rows are stored, the first with text "ab", and a search
\* for "b" returns it.
C24_Witness ==
    /\ Len(db) = 2
    /\ db[1].text = <<"a", "b">>
    /\ db[1] \in Search(<<"b">>)
    /\ db_call.op = "save" /\ db_call.id = 2

\* C25: delete_transcription(i) returns True exactly when a row with id i is
\* stored; after it no row has id i, every other row is stored as before and
\* no row is new; so a second delete_transcription(i) finds no row, returns
\* False and leaves the table as it was.
C25_DeleteRemovesOnlyThatRow ==
    /\ [](db_call.op = "delete" => GetById(db_call.id) = {})
    /\ [][(db_call' # db_call /\ db_call'.op = "delete")
            => LET i == db_call'.id
                   stored == \E k \in 1..Len(db) : db[k].id = i
               IN  /\ db_call'.ret = stored
                   /\ \A r \in GetAll : r.id # i => r \in GetAll'
                   /\ \A r \in GetAll' : r \in GetAll /\ r.id # i
                   /\ Len(db') = Len(db) - (IF stored THEN 1 ELSE 0)
                   /\ ~stored => db' = db
                   /\ db_seq' = db_seq]_vars

\* C25 witness: of two rows stored, the one with id 1 has been deleted with
\* result True and the one with id 2 is still there.
C25_Witness ==
    /\ db_call = [op |-> "delete", id |-> 1, ret |-> TRUE]
    /\ Len(db) = 1 /\ db[1].id = 2

\* the durations of the rows with index in K, added up
RECURSIVE DurationOver(_)
DurationOver(K) ==
    IF K = {} THEN 0
    ELSE LET k == CHOOSE x \in K : TRUE
         IN  db[k].duration + DurationOver(K \ {k})

\* C26: whatever was saved and deleted, get_stats() reports as
\* total_transcriptions the number of rows stored and as
\* total_duration_seconds the sum of the durations that are not NULL, and it
\* reports 0 as total duration when no row has a duration and 0 as average
\* confidence when no row has a confidence.
C26_StatsMatchRows ==
    LET withDuration == {k \in 1..Len(db) : db[k].duration # Null}
        withConfidence == {k \in 1..Len(db) : db[k].confidence # Null}
    IN  /\ GetStats.total_transcriptions = Cardinality({db[k].id : k \in 1..Len(db)})
        /\ GetStats.total_duration_seconds = DurationOver(withDuration)
        /\ withDuration = {} => GetStats.total_duration_seconds = 0
        /\ withConfidence = {} => GetStats.average_confidence = 0

\* C26 witness: two rows were saved and the first deleted; the row left has
\* duration 2 and no confidence, and the statistics are 1, 2 and 0.
C26_Witness ==
    /\ db_seq = 2 /\ Len(db) = 1 /\ db[1].id = 2
    /\ db[1].duration = 2 /\ db[1].confidence = Null
    /\ GetStats = [total_transcriptions |-> 1, total_duration_seconds |-> 2,
                   average_confidence |-> 0]

\* C27: no call of transcribe_audio_file raises; a call that ends with
\* success = False (model not loaded, file missing, or the engine raised)
\* carries text '' and confidence 0.0.
C27_TranscribeNeverRaises ==
    \A j \in JobIds :
        /\ jobs[j].result # "raised"
        /\ jobs[j].result = "error" => jobs[j].text = "" /\ jobs[j].conf = 0

\* C28: once change_model() has returned False, the engine is as the call
\* found it: self.model holds the model it held (so a model that was loaded is
\* still loaded and transcription jobs run) and model_name is unchanged.
C28_FailedChangeKeepsEngine ==
    (cm = "idle" /\ cm_ret = "False")
        => /\ model = cm_before.model
           /\ model_name = cm_before.model_name

\* C29: a step of the key handlers takes no step of a toggle callback (it
\* leaves every worker, the coordinator and the recorder where they were), and
\* while the listener runs the next key press and key release can be
\* processed whatever the workers dispatched before are doing.
C29_KeyHandlerNeverRunsCallback ==
    /\ [][currently_pressed' # currently_pressed
            => UNCHANGED <<pc, ret, srVars, arVars, capVars, jobVars>>]_vars
    /\ []((ListenerDelivers /\ toggles < MaxToggles)
            => \A k \in Keys : ENABLED OnKeyPress(k) /\ ENABLED OnKeyRelease(k))

\* C29 witness: the worker of the second toggle waits in stop_recording() for
\* the capture thread, and the key handler has processed a third press of the
\* combination and dispatched a third toggle meanwhile.
C29_Witness ==
    /\ toggles = 3 /\ budget = MaxWorkers - 2
    /\ \E t \in Callers : pc[t] = "ar_stop_wait"
    /\ IsToggleCombinationPressed(currently_pressed)

\* C30: a block stored by the callback holds the samples the buffer held at
\* the callback, and no later step (the stream refilling the buffer included)
\* changes the samples of a block that is still stored.
C30_StoredBlocksAreCopies ==
    [][/\ \A i \in 1..Len(blocks) :
             i <= Len(blocks') => BlockData(blocks[i])' = BlockData(blocks[i])
       /\ Len(blocks') = Len(blocks) + 1
             => BlockData(blocks[Len(blocks)])' = indata[audio_data'[Len(audio_data')]]]_vars

\* C30 witness: a block is stored and the stream has since put other samples
\* into the buffer it was copied from.
C30_Witness ==
    /\ blocks # <<>>
    /\ indata[blocks[1].of] # BlockData(blocks[1])

\* C31: whenever no start, stop or toggle call is in progress, the
\* coordinator's flag and the recorder's flag agree, device errors included.
C31_FlagsAgreeWhenIdle ==
    AllIdle => (sr_is_recording = ar_is_recording)

\* C32: once every worker thread the key handler dispatched has run
\* toggle_recording to completion (k toggles, no other caller, a working
\* device), the coordinator is recording exactly when k is odd.
C32_ParityOfToggles ==
    (AllIdle /\ toggles = MaxWorkers - budget) =>
        (sr_is_recording <=> (toggles % 2 = 1))

\* the recording-start and recording-stop callbacks made so far, in order
RecordingCallbacks == SelectSeq(events, LAMBDA e : e.kind \in {"start", "stop"})

\* C33: the recording-start and recording-stop callbacks strictly alternate,
\* beginning with start: the callbacks made so far are start, stop, start, ...
C33_CallbacksAlternate ==
    \A i \in 1..Len(RecordingCallbacks) :
        RecordingCallbacks[i].kind = (IF i % 2 = 1 THEN "start" ELSE "stop")

\* C34: once stop_service() has returned, no recording is active: neither the
\* coordinator nor the recorder is recording, whatever the toggle workers
\* dispatched before the stop do afterwards (nobody calls start_service or
\* start_recording).
C34_NoRecordingAfterStopService ==
    (\E t \in Callers : op[t] = "stop_service" /\ pc[t] = "idle") =>
        (~sr_is_recording /\ ~ar_is_recording)

\* C35: a toggle is invoked only at a moment when every key of the
\* combination is physically held, also after listening periods with key
\* releases the handler did not hear of.
C35_ToggleOnlyWhenKeysHeld ==
    [][toggles' # toggles => toggle_key_combination \subseteq held']_vars

\* C36: after every key event handler and every set_toggle_keys() call, the
\* armed flag recording_active being True implies that the current toggle
\* combination is a subset of the keys currently pressed.
C36_ArmedImpliesCombinationPressed ==
    recording_active => IsToggleCombinationPressed(currently_pressed)

\* the blocks stream s delivered while its session was capturing, in the
\* order delivered (a block is written as the stream that delivered it)
DeliveredBlocks(s) == IF s = None THEN <<>> ELSE [i \in 1..delivered[s] |-> s]

\* C37: the audio a stop_recording() saves for the session it ends consists
\* of exactly the blocks the device delivered while that session was
\* capturing, each once and in the order delivered: the step that saves
\* writes these blocks to one file, or writes nothing when there are none.
C37_SavedAudioIsDeliveredBlocks ==
    [][\A t \in Callers :
          (pc[t] = "ar_stop_save" /\ pc'[t] # pc[t]) =>
              IF DeliveredBlocks(sess[t]) = <<>>
                THEN files' = files
                ELSE \E p \in DOMAIN files :
                        files' = [files EXCEPT ![p] = DeliveredBlocks(sess[t])]]_vars

\* C38: any two sessions that each ended with at least one frame were saved
\* under distinct audio file paths (every such session has the transcription
\* job stop_recording() started for its file).
C38_SessionsSavedUnderDistinctPaths ==
    \A i, j \in JobIds :
        (i # j /\ jobs[i].path # None /\ jobs[j].path # None)
            => jobs[i].path # jobs[j].path

\* C39: the ids save_transcription returns are strictly increasing and never
\* reused: every save stores its row under the id it returns, and that id is
\* greater than every id returned before, ids of deleted rows included.
C39_IdsStrictlyIncrease ==
    [][Len(db') > Len(db) =>
          /\ db_call'.op = "save"
          /\ db_call'.id = db'[Len(db')].id
          /\ \A i \in issued : db_call'.id > i]_vars

\* C39 witness: a save has returned an id right above the id of a row that
\* was saved and deleted before it.
C39_Witness ==
    /\ db_call.op = "save"
    /\ db_call.id - 1 \in issued
    /\ GetById(db_call.id - 1) = {}

====
